---- MODULE Spec2Model ----
(***************************************************************************)
(* The reflection/optimization loop of ChatPPT: the sequential engine      *)
(* (src/src/reflection_python.py), the graph engine                        *)
(* (src/src/reflection_engine.py) and ChatBot.chat_with_history            *)
(* (src/src/chatbot.py), which calls the graph engine.                     *)
(*                                                                         *)
(* Text is a sequence of integer tokens.  A message is [role, content].    *)
(* A history is [rounds, final_content]: rounds maps the index i of key    *)
(* round_i to the text stored under it.  An optional value is <<>> (None)  *)
(* or <<v>>.                                                               *)
(***************************************************************************)
EXTENDS Integers, Sequences, FiniteSets, TLC

\* Largest max_rounds the engines are constructed with.
MaxRounds == 3

\* ReflectionEngine.__init__'s default max_rounds, which ChatBot relies on.
DefaultMaxRounds == 3

\* Concurrent optimize_content calls on the engines.
Runs == {1, 2}

\* initial_content arguments (the empty string included).
Contents == {<<>>, <<1>>}

\* ChatBot.prompt, and the system_prompt arguments of direct callers.
ChatPrompt == <<10>>
SystemPrompts == {<<10>>, <<11>>}

\* Texts an unconstrained Generation Client may return.
Responses == {<<2>>, <<3>>}

VARIABLES
    max_rounds,   \* self.max_rounds of the engines
    client,       \* "stub": the deterministic stub; "free": any response
    frame,        \* per call: position, arguments, value returned or raised
    state,        \* per call: the ReflectionState / the locals it works on
    calls         \* per call: the log of chat_model.invoke calls it made

vars == <<max_rounds, client, frame, state, calls>>

Msg(role, content) == [role |-> role, content |-> content]

\* _get_reflection_prompt: a fixed template (token 0) carrying round_num + 1.
ReflectionPrompt(round_num) == <<0, round_num + 1>>

\* The deterministic stub: input + "+refined{round}", the round read back
\* from the critique instruction of the message list.
Stub(messages) == Append(messages[2].content, messages[3].content[2] - 1)

\* What chat_model.invoke(messages) may return when it does not fail.
Invoke(messages) ==
    IF client = "stub" THEN {Stub(messages)} ELSE Responses

\* The dict literal {"round_0": c, "final_content": c}.
InitHistory(c) == [rounds |-> (0 :> c), final_content |-> c]

\* history[f"round_{k}"] = text; history["final_content"] = text
Record(h, k, text) ==
    [rounds |-> [i \in DOMAIN h.rounds \cup {k} |->
                    IF i = k THEN text ELSE h.rounds[i]],
     final_content |-> text]

\* Mutant of StateOf: the working state kept on the engine (self), one
\* cell shared by every call.
StateOfShared(r) == CHOOSE c \in Runs : \A d \in Runs : c <= d

\* The cell holding the state a call works on: created per call.
StateOf(r) == r

IdleFrame ==
    [pc |-> "idle", impl |-> "none", caller |-> "none",
     initial_content |-> <<>>, system_prompt |-> <<>>,
     returned |-> <<>>, reply |-> <<>>]

IdleState ==
    [messages |-> <<>>, current_round |-> 0, round_num |-> 0,
     current_content |-> <<>>,
     optimization_history |-> InitHistory(<<>>), should_continue |-> TRUE]

\* One entry of the log of chat_model.invoke: the round the caller was in,
\* the message list passed, and the text returned (ok) or the failure.
CallEntry(round, messages, ok, response) ==
    [round |-> round, messages |-> messages, ok |-> ok, response |-> response]

Init ==
    /\ max_rounds \in 0..MaxRounds
    /\ client \in {"stub", "free"}
    /\ frame = [r \in Runs |-> IdleFrame]
    /\ state = [r \in Runs |-> IdleState]
    /\ calls = [r \in Runs |-> <<>>]

(***************************************************************************)
(* The sequential engine: reflection_python.py                             *)
(***************************************************************************)

\* optimization_history, current_content and the loop variable at loop entry.
SeqInitState(initial_content) ==
    [IdleState EXCEPT !.round_num = 1,
                      !.current_content = initial_content,
                      !.optimization_history = InitHistory(initial_content)]

\* for round_num in range(1, self.max_rounds)
SeqContinues(s) == s.round_num \in 1..(max_rounds - 1)

\* messages = [SystemMessage(system_prompt), HumanMessage(current_content),
\*             SystemMessage(_get_reflection_prompt(round_num))]
SeqMessages(s, system_prompt) ==
    << Msg("system", system_prompt),
       Msg("user", s.current_content),
       Msg("system", ReflectionPrompt(s.round_num)) >>

\* The body of one iteration after invoke returned `response`.
SeqStep(s, response) ==
    [s EXCEPT !.current_content = response,
              !.optimization_history = Record(@, s.round_num, response),
              !.round_num = @ + 1]

\* Mutant of SeqOnFailure: the handler swallows the failure and returns
\* the rounds completed so far.
SeqOnFailureReturnsPartial(f, s) ==
    [f EXCEPT !.pc = "returned", !.returned = <<s.optimization_history>>]

\* except Exception: LOG.error(...); raise
SeqOnFailure(f, s) == [f EXCEPT !.pc = "raised"]

\* return optimization_history
SeqOnReturn(f, s) ==
    [f EXCEPT !.pc = "returned", !.returned = <<s.optimization_history>>]

SeqCall(r) ==
    /\ frame[r].pc = "idle"
    /\ \E c \in Contents, p \in SystemPrompts :
        /\ frame' = [frame EXCEPT ![r] =
                        [@ EXCEPT !.pc = "loop", !.impl = "seq",
                                  !.caller = "direct",
                                  !.initial_content = c,
                                  !.system_prompt = p]]
        /\ state' = [state EXCEPT ![StateOf(r)] = SeqInitState(c)]
    /\ UNCHANGED <<max_rounds, client, calls>>

SeqRound(r) ==
    LET s == state[StateOf(r)]
        m == SeqMessages(s, frame[r].system_prompt)
    IN  /\ frame[r].pc = "loop"
        /\ SeqContinues(s)
        /\ \E response \in Invoke(m) :
            /\ state' = [state EXCEPT ![StateOf(r)] = SeqStep(s, response)]
            /\ calls' = [calls EXCEPT ![r] =
                            Append(@, CallEntry(s.round_num, m, TRUE, response))]
        /\ UNCHANGED <<max_rounds, client, frame>>

SeqRoundFail(r) ==
    LET s == state[StateOf(r)]
        m == SeqMessages(s, frame[r].system_prompt)
    IN  /\ frame[r].pc = "loop"
        /\ SeqContinues(s)
        /\ calls' = [calls EXCEPT ![r] =
                        Append(@, CallEntry(s.round_num, m, FALSE, <<>>))]
        /\ frame' = [frame EXCEPT ![r] = SeqOnFailure(@, s)]
        /\ UNCHANGED <<max_rounds, client, state>>

SeqReturn(r) ==
    LET s == state[StateOf(r)]
    IN  /\ frame[r].pc = "loop"
        /\ ~SeqContinues(s)
        /\ frame' = [frame EXCEPT ![r] = SeqOnReturn(@, s)]
        /\ UNCHANGED <<max_rounds, client, state, calls>>

(***************************************************************************)
(* The graph engine: reflection_engine.py                                  *)
(***************************************************************************)

\* initial_state = ReflectionState(messages=[system, user], current_round=0,
\*                                 optimization_history={...}, should_continue=True)
GraphInitState(initial_content, system_prompt) ==
    [IdleState EXCEPT !.messages = << Msg("system", system_prompt),
                                      Msg("user", initial_content) >>,
                      !.current_round = 0,
                      !.optimization_history = InitHistory(initial_content),
                      !.should_continue = TRUE]

\* messages = [SystemMessage(state["messages"][0]), HumanMessage(state["messages"][-1]),
\*             SystemMessage(_get_reflection_prompt(current_round))]
GraphMessages(s) ==
    << Msg("system", s.messages[1].content),
       Msg("user", s.messages[Len(s.messages)].content),
       Msg("system", ReflectionPrompt(s.current_round)) >>

\* The state update of node optimize after invoke returned `response`.
GraphStep(s, response) ==
    [s EXCEPT !.messages = Append(@, Msg("assistant", response)),
              !.optimization_history = Record(@, s.current_round, response),
              !.current_round = @ + 1]

\* _should_continue
ShouldContinue(s) == s.current_round < max_rounds

\* The conditional edge out of optimize: True -> "optimize", False -> "end".
NextNode(s) == IF ShouldContinue(s) THEN "optimize" ELSE "end"

\* except Exception: LOG.error(...); raise  (in the node and in optimize_content)
GraphOnFailure(f, s) == [f EXCEPT !.pc = "raised"]

\* return final_state["optimization_history"]
GraphOnReturn(f, s) ==
    [f EXCEPT !.pc = "returned", !.returned = <<s.optimization_history>>]

\* optimize_content up to workflow.invoke: the entry point is node optimize.
GraphStart(r, caller, c, p) ==
    /\ frame[r].pc = "idle"
    /\ frame' = [frame EXCEPT ![r] =
                    [@ EXCEPT !.pc = "optimize", !.impl = "graph",
                              !.caller = caller,
                              !.initial_content = c,
                              !.system_prompt = p]]
    /\ state' = [state EXCEPT ![StateOf(r)] = GraphInitState(c, p)]
    /\ UNCHANGED <<max_rounds, client, calls>>

GraphCall(r) ==
    \E c \in Contents, p \in SystemPrompts : GraphStart(r, "direct", c, p)

\* Node optimize, then the conditional edge.
GraphOptimize(r) ==
    LET s == state[StateOf(r)]
        m == GraphMessages(s)
    IN  /\ frame[r].pc = "optimize"
        /\ \E response \in Invoke(m) :
            /\ state' = [state EXCEPT ![StateOf(r)] = GraphStep(s, response)]
            /\ calls' = [calls EXCEPT ![r] =
                            Append(@, CallEntry(s.current_round, m, TRUE, response))]
            /\ frame' = [frame EXCEPT ![r].pc = NextNode(GraphStep(s, response))]
        /\ UNCHANGED <<max_rounds, client>>

GraphOptimizeFail(r) ==
    LET s == state[StateOf(r)]
        m == GraphMessages(s)
    IN  /\ frame[r].pc = "optimize"
        /\ calls' = [calls EXCEPT ![r] =
                        Append(@, CallEntry(s.current_round, m, FALSE, <<>>))]
        /\ frame' = [frame EXCEPT ![r] = GraphOnFailure(@, s)]
        /\ UNCHANGED <<max_rounds, client, state>>

\* Node end (lambda x: x), after which workflow.invoke returns the state.
GraphEnd(r) ==
    LET s == state[StateOf(r)]
    IN  /\ frame[r].pc = "end"
        /\ frame' = [frame EXCEPT ![r] = GraphOnReturn(@, s)]
        /\ UNCHANGED <<max_rounds, client, state, calls>>

(***************************************************************************)
(* ChatBot.chat_with_history: chatbot.py                                   *)
(***************************************************************************)

\* self.reflection_engine = ReflectionEngine(): the default max_rounds;
\* optimize_content(initial_content=text, system_prompt=self.prompt)
ChatCall(r) ==
    /\ max_rounds = DefaultMaxRounds
    /\ \E text \in Contents : GraphStart(r, "chatbot", text, ChatPrompt)

\* final_content = optimization_result["final_content"]; return final_content
ChatReturn(r) ==
    /\ frame[r].pc = "returned"
    /\ frame[r].caller = "chatbot"
    /\ frame' = [frame EXCEPT ![r] =
                    [@ EXCEPT !.pc = "chat_returned",
                              !.reply = <<frame[r].returned[1].final_content>>]]
    /\ UNCHANGED <<max_rounds, client, state, calls>>

\* except Exception as e: LOG.error(...); raise e
ChatRaise(r) ==
    /\ frame[r].pc = "raised"
    /\ frame[r].caller = "chatbot"
    /\ frame' = [frame EXCEPT ![r].pc = "chat_raised"]
    /\ UNCHANGED <<max_rounds, client, state, calls>>

\* The steps of call r.
RunStep(r) ==
    \/ SeqCall(r)
    \/ SeqRound(r)
    \/ SeqRoundFail(r)
    \/ SeqReturn(r)
    \/ GraphCall(r)
    \/ GraphOptimize(r)
    \/ GraphOptimizeFail(r)
    \/ GraphEnd(r)
    \/ ChatCall(r)
    \/ ChatReturn(r)
    \/ ChatRaise(r)

Next == \E r \in Runs : RunStep(r)

Spec == Init /\ [][Next]_vars

\* Every call that can take a step eventually takes one: each call runs on
\* its own thread, and a generation call returns or fails.
FairSpec == Spec /\ \A r \in Runs : WF_vars(RunStep(r))

(***************************************************************************)
(* Vocabulary of the properties                                            *)
(***************************************************************************)

Started(r) == frame[r].pc # "idle"
Returned(r) == frame[r].returned # <<>>
History(r) == frame[r].returned[1]
Raised(r) == frame[r].pc \in {"raised", "chat_raised"}
Working(r) == state[StateOf(r)].optimization_history
Max0(n) == IF n > 0 THEN n ELSE 0
Top(S) == CHOOSE k \in S : \A j \in S : j <= k
ResponsesOf(r) == [k \in 1..Len(calls[r]) |-> calls[r][k].response]
MessagesOf(r) == [k \in 1..Len(calls[r]) |-> calls[r][k].messages]
AllOk(r) == \A k \in 1..Len(calls[r]) : calls[r][k].ok
(***************************************************************************)
(* C5: a failed generation call ends the run in an error outcome           *)
(***************************************************************************)

\* C5: if the Generation Client fails on some round of a run, that call is
\* the last generation call of the run (no retry, no further call), the run
\* is in an error outcome (the failure raised to the caller, and re-raised
\* by chat_with_history), and nothing is returned: no history, so none of
\* the rounds completed before, and no reply.
C5_FailureAbortsRun ==
    \A r \in Runs :
        /\ \A k \in 1..Len(calls[r]) :
              ~calls[r][k].ok => (k = Len(calls[r]) /\ Raised(r))
        /\ Raised(r) =>
              /\ Len(calls[r]) >= 1
              /\ ~calls[r][Len(calls[r])].ok
              /\ frame[r].returned = <<>>
              /\ frame[r].reply = <<>>

\* Both engines and the ChatBot have failed after a completed round.
C5_Witness ==
    /\ \E r \in Runs :
          /\ frame[r].impl = "seq" /\ frame[r].pc = "raised"
          /\ Len(calls[r]) >= 2
    /\ \E r \in Runs :
          /\ frame[r].caller = "chatbot" /\ frame[r].pc = "chat_raised"
          /\ Len(calls[r]) >= 2

(***************************************************************************)
(* C8: interleaved runs are isolated                                       *)
(***************************************************************************)

\* The responses call r has received (a failed call is the last one).
Received(r) == SelectSeq(calls[r], LAMBDA e : e.ok)
ReceivedText(r, k) == Received(r)[k].response

\* The message list of the k-th generation call of call r run alone.
AloneMessages(r, k) ==
    << Msg("system", frame[r].system_prompt),
       Msg("user", IF k = 1 THEN frame[r].initial_content
                            ELSE calls[r][k - 1].response),
       Msg("system", ReflectionPrompt(IF frame[r].impl = "seq" THEN k ELSE k - 1)) >>

\* The history call r holds, run alone, after the responses it received.
AloneHistory(r) ==
    LET n == Len(Received(r))
        c == frame[r].initial_content
    IN  IF frame[r].impl = "seq"
        THEN [rounds |-> [i \in 0..n |-> IF i = 0 THEN c ELSE ReceivedText(r, i)],
              final_content |-> IF n = 0 THEN c ELSE ReceivedText(r, n)]
        ELSE IF n = 0 THEN [rounds |-> [i \in {0} |-> c], final_content |-> c]
        ELSE [rounds |-> [i \in 0..(n - 1) |-> ReceivedText(r, i + 1)],
              final_content |-> ReceivedText(r, n)]

\* The working state call r holds, run alone, after the responses it received.
AloneState(r) ==
    LET n == Len(Received(r))
        c == frame[r].initial_content
    IN  IF frame[r].impl = "seq"
        THEN [messages |-> <<>>, current_round |-> 0, round_num |-> n + 1,
              current_content |-> IF n = 0 THEN c ELSE ReceivedText(r, n),
              optimization_history |-> AloneHistory(r),
              should_continue |-> TRUE]
        ELSE [messages |-> << Msg("system", frame[r].system_prompt), Msg("user", c) >>
                           \o [k \in 1..n |-> Msg("assistant", ReceivedText(r, k))],
              current_round |-> n, round_num |-> 0,
              current_content |-> <<>>,
              optimization_history |-> AloneHistory(r),
              should_continue |-> TRUE]

\* The number of generation calls of call r run alone to its return.
AloneCallCount(r) ==
    IF frame[r].impl = "seq" THEN Max0(max_rounds - 1)
    ELSE IF max_rounds >= 1 THEN max_rounds ELSE 1

Isolated(r) ==
    /\ \A k \in 1..Len(calls[r]) : calls[r][k].messages = AloneMessages(r, k)
    /\ (~Returned(r) /\ ~Raised(r)) => state[StateOf(r)] = AloneState(r)
    /\ Returned(r) =>
          /\ History(r) = AloneHistory(r)
          /\ Len(calls[r]) = AloneCallCount(r)

\* C8: with calls interleaved at arbitrary points between their generation
\* calls, every generation call of a call carries the message list it would
\* carry run alone, the round counter, message list and history the call
\* works on are those of the call run alone with the responses it received,
\* and it returns the history it would return alone.
\* The engine's field max_rounds is never modified by a run (chat model and
\* workflow are fixed at construction and are not state of the model).
C8_RunsIsolated ==
    /\ [](\A r \in Runs : Started(r) => Isolated(r))
    /\ [][max_rounds' = max_rounds]_vars

\* A call has returned after two generation calls while another call on
\* the same engine, with other inputs, is between two generation calls.
C8_Witness ==
    \E r1, r2 \in Runs :
        /\ r1 # r2
        /\ frame[r1].impl = "graph" /\ frame[r2].impl = "graph"
        /\ Returned(r1) /\ Len(calls[r1]) >= 2
        /\ frame[r2].pc = "optimize" /\ Len(calls[r2]) >= 1
        /\ frame[r1].initial_content # frame[r2].initial_content
        /\ frame[r1].system_prompt # frame[r2].system_prompt

(***************************************************************************)
(* C1, C2, C3, C4, C6, C7, C9, C10: statements the graph engine (C6: both  *)
(* engines) does not satisfy                                               *)
(***************************************************************************)

\* C1: for max_rounds = N >= 1, a run in which every generation call
\* succeeded (a run that returned) made exactly N - 1 generation calls and
\* its history has exactly the keys round_0 .. round_{N-1} (and
\* final_content), in both engines.
C1_ExactlyNMinusOneCalls ==
    \A r \in Runs :
        (Returned(r) /\ max_rounds >= 1) =>
            /\ Len(calls[r]) = max_rounds - 1
            /\ DOMAIN History(r).rounds = 0..(max_rounds - 1)

\* C2: for max_rounds >= 1, in every state of a run and in the returned
\* history, round_0 holds initial_content unmodified, and no generation
\* call is made for round 0, in both engines.
C2_RoundZeroIsInitialContent ==
    \A r \in Runs :
        (Started(r) /\ max_rounds >= 1) =>
            /\ (~Returned(r) /\ ~Raised(r)) =>
                  Working(r).rounds[0] = frame[r].initial_content
            /\ Returned(r) => History(r).rounds[0] = frame[r].initial_content
            /\ \A k \in 1..Len(calls[r]) : calls[r][k].round # 0

\* C3: in every state of a run final_content is the value under the highest
\* round key recorded so far; the returned history has final_content =
\* round_{N-1} for max_rounds = N >= 1, and final_content = initial_content
\* when N = 1, in both engines.
C3_FinalIsHighestRound ==
    \A r \in Runs :
        /\ (Started(r) /\ ~Returned(r) /\ ~Raised(r)) =>
              Working(r).final_content =
                  Working(r).rounds[Top(DOMAIN Working(r).rounds)]
        /\ (Returned(r) /\ max_rounds >= 1) =>
              /\ (max_rounds - 1) \in DOMAIN History(r).rounds
              /\ History(r).final_content = History(r).rounds[max_rounds - 1]
        /\ (Returned(r) /\ max_rounds = 1) =>
              History(r).final_content = frame[r].initial_content

\* C4: with the deterministic stub, a sequential run and a graph run on the
\* same initial_content and system_prompt return identical histories and
\* make the same generation calls with the same message lists.
C4_SequentialEqualsGraph ==
    \A r1, r2 \in Runs :
        ( /\ client = "stub"
          /\ max_rounds >= 1
          /\ frame[r1].impl = "seq" /\ frame[r2].impl = "graph"
          /\ frame[r1].initial_content = frame[r2].initial_content
          /\ frame[r1].system_prompt = frame[r2].system_prompt
          /\ Returned(r1) /\ Returned(r2) ) =>
            /\ History(r1) = History(r2)
            /\ MessagesOf(r1) = MessagesOf(r2)

\* C6: a call with empty initial_content makes no generation call, returns
\* no history, and once it has ended it has ended in an error outcome.
C6_EmptyContentRejected ==
    \A r \in Runs :
        (Started(r) /\ frame[r].initial_content = <<>>) =>
            /\ calls[r] = <<>>
            /\ ~Returned(r)
            /\ frame[r].pc \in {"loop", "optimize", "raised", "chat_raised"}

\* C7: the k-th generation call of a run carries [system_prompt as System,
\* current content as User, critique instruction as System], its User
\* content being the text the (k-1)-th call returned (initial_content for
\* the first); so with max_rounds = 3 and the stub returning
\* input + "+refined{round}", the returned history is round_0 = C,
\* round_1 = C+refined1, round_2 = C+refined1+refined2, final_content =
\* round_2.
C7_RoundsChained ==
    \A r \in Runs :
        /\ \A k \in 1..Len(calls[r]) :
              LET m == calls[r][k].messages
              IN  /\ Len(m) = 3
                  /\ m[1] = Msg("system", frame[r].system_prompt)
                  /\ m[2] = Msg("user", IF k = 1 THEN frame[r].initial_content
                                                 ELSE calls[r][k - 1].response)
                  /\ m[3].role = "system"
                  /\ k > 1 => calls[r][k - 1].ok
        /\ (Returned(r) /\ client = "stub" /\ max_rounds = 3) =>
              LET C == frame[r].initial_content
              IN  History(r) =
                    [rounds |-> [i \in 0..2 |->
                                    IF i = 0 THEN C
                                    ELSE IF i = 1 THEN C \o <<1>>
                                    ELSE C \o <<1, 2>>],
                     final_content |-> C \o <<1, 2>>]

\* C9: within a run, a step never changes or removes the value under a
\* round key already written (round_0 at initialisation included), and
\* each round step adds exactly one new round key, in both engines.
C9_HistoryAppendOnly ==
    [][\A r \in Runs :
          (Started(r) /\ ~Returned(r) /\ ~Raised(r)) =>
              LET h == state[StateOf(r)].optimization_history.rounds
                  g == state'[StateOf(r)].optimization_history.rounds
              IN  /\ \A k \in DOMAIN h : k \in DOMAIN g /\ g[k] = h[k]
                  /\ (Len(Received(r)') = Len(Received(r)) + 1) =>
                        Cardinality(DOMAIN g) = Cardinality(DOMAIN h) + 1
      ]_vars

\* A graph run at node optimize, and one past the workflow.
AtOptimize(r) == frame[r].impl = "graph" /\ frame[r].pc = "optimize"
PastOptimize(r) ==
    frame[r].impl = "graph"
    /\ frame[r].pc \in {"end", "returned", "raised", "chat_returned", "chat_raised"}

\* C10: in the graph engine the workflow started at node optimize reaches
\* node end (or fails); each execution of optimize increases current_round
\* by exactly 1; the self-loop is taken only while current_round <
\* max_rounds; the executions of optimize never exceed max_rounds - 1; and
\* past node end no generation call is made.
C10_GraphTerminatesWithinBound ==
    /\ \A r \in Runs : AtOptimize(r) ~> PastOptimize(r)
    /\ [][\A r \in Runs :
            /\ (AtOptimize(r) /\ calls'[r] # calls[r] /\ ~Raised(r)') =>
                  /\ state'[StateOf(r)].current_round =
                        state[StateOf(r)].current_round + 1
                  /\ AtOptimize(r)' =>
                        state'[StateOf(r)].current_round < max_rounds
            /\ PastOptimize(r) => calls'[r] = calls[r]
        ]_vars
    /\ [](\A r \in Runs :
            frame[r].impl = "graph" =>
                Len(Received(r)) <= Max0(max_rounds - 1))
====
